---- MODULE Spec2Model ----
(***************************************************************************)
(* GitHub Copilot authentication of claude-code-router:                    *)
(*   providers/github-copilot-auth.ts   device flow, refresh, validator    *)
(*   middleware/github-copilot-auth.ts  request-time token injection       *)
(*                                                                         *)
(*   providers/github-copilot-provider.ts  getAuthHeader                   *)
(*   cli/github-copilot.ts              interactive setup                  *)
(*                                                                         *)
(* Specifications over one set of variables:                               *)
(*   SpecGvat    a caller invoking getValidAccessToken one call at a time  *)
(*   SpecMw      concurrent requests through the githubCopilotAuth         *)
(*               middleware                                                *)
(*   SpecPoll    one run of pollForAuthorization against a scripted server *)
(*   FairSpecPoll  SpecPoll with every pending step eventually taken       *)
(*   SpecHeader  a caller invoking getAuthHeader one call at a time        *)
(*   SpecSetup   one run of authenticateGitHubCopilot                      *)
(*   SpecConfig  calls of updateProviderAuth on one config                 *)
(*                                                                         *)
(* Strings that the code tests for truthiness are modelled with "" for     *)
(* every falsy value (undefined, ""), numbers with 0 for every falsy value *)
(* (undefined, 0, NaN).  Error messages are sequences of words, so that    *)
(* String.includes is a membership test the model can get wrong.           *)
(* The clock is Date.now() in milliseconds, counted from an offset.        *)
(***************************************************************************)
EXTENDS Integers, Sequences, FiniteSets, TLC

\* ------------------------------------------------------------------ bounds
Now0 == 1000000
MaxTicks == 2
MaxCalls == 3
NumReq == 3
ShortInterval == 180
LongInterval == 300
SlowReply == 50000
MaxProviders == 2

\* ------------------------------------------------------- program constants
bufferTime == 5 * 60 * 1000
timeout == 15 * 60 * 1000
SlowDownIncrement == 5

\* ------------------------------------------------------------- credentials
Types == {"oauth", "pat", ""}
AccessTokens == {"at1", "at2"}
RefreshTokens == {"", "rt1"}
TokenTypes == {"", "bearer"}
ExpiresIn == {0, 300, 301, 28800}

\* GitHubCopilotAuthConfig
AuthConfigs ==
  [type : Types,
   access_token : {"", "at0"},
   refresh_token : {"", "rt0"},
   expires_at : {0, Now0 - 1, Now0 + bufferTime, Now0 + bufferTime + 1},
   token_type : TokenTypes]

\* AccessTokenResponse
TokenSets ==
  [access_token : AccessTokens,
   token_type : {"bearer"},
   expires_in : ExpiresIn,
   refresh_token : RefreshTokens,
   scope : {"read:user"}]

NoData == [access_token |-> "", token_type |-> "", expires_in |-> 0,
           refresh_token |-> "", scope |-> ""]

\* What the token endpoint can answer to a refresh grant: the fetch rejects,
\* the status is not ok, the body carries an error field, or a token set.
RefreshReplies ==
  {[net |-> "fail", ok |-> FALSE, error |-> "", data |-> NoData],
   [net |-> "ok", ok |-> FALSE, error |-> "", data |-> NoData],
   [net |-> "ok", ok |-> TRUE, error |-> "bad_refresh_token", data |-> NoData]}
  \cup {[net |-> "ok", ok |-> TRUE, error |-> "", data |-> d] : d \in TokenSets}

NoReply == [net |-> "none", ok |-> FALSE, error |-> "", data |-> NoData]

\* ---------------------------------------------------------------- outcomes
Return(tok) == [kind |-> "return", err |-> "", token |-> tok]
Throw(e) == [kind |-> "throw", err |-> e, token |-> ""]
Await == [kind |-> "await", err |-> "", token |-> ""]
NoOutcome == [kind |-> "none", err |-> "", token |-> ""]

\* ------------------------------------------------------------ isTokenExpired
isTokenExpiredNoBuffer(expiresAt, t) ==
  IF expiresAt = 0 THEN TRUE ELSE t >= expiresAt

isTokenExpiredStrict(expiresAt, t) ==
  IF expiresAt = 0 THEN TRUE ELSE t > (expiresAt - bufferTime)

isTokenExpired(expiresAt, t) ==
  IF expiresAt = 0 THEN TRUE ELSE t >= (expiresAt - bufferTime)

\* -------------------------------------------------------- refreshAccessToken
\* The part of refreshAccessToken after the fetch has settled.
refreshAccessTokenIgnoresError(reply) ==
  IF reply.net = "fail" THEN Throw("NetworkError")
  ELSE IF ~reply.ok THEN Throw("RefreshHttpError")
  ELSE Return(reply.data.access_token)

refreshAccessToken(reply) ==
  IF reply.net = "fail" THEN Throw("NetworkError")
  ELSE IF ~reply.ok THEN Throw("RefreshHttpError")
  ELSE IF reply.error # "" THEN Throw("RefreshServerError")
  ELSE Return(reply.data.access_token)

\* ------------------------------------------------------- getValidAccessToken
\* The synchronous prefix of getValidAccessToken, up to the first await.
GvatPrefixPatFirst(a, t) ==
  IF a.type = "pat" THEN Return(a.access_token)
  ELSE IF a.access_token = "" THEN Throw("NotAuthenticated")
  ELSE IF ~isTokenExpired(a.expires_at, t) THEN Return(a.access_token)
  ELSE IF a.refresh_token = "" THEN Throw("ReauthenticationRequired")
  ELSE Await

GvatPrefixPatExpires(a, t) ==
  IF a.access_token = "" THEN Throw("NotAuthenticated")
  ELSE IF ~isTokenExpired(a.expires_at, t) THEN Return(a.access_token)
  ELSE IF a.refresh_token = "" THEN Throw("ReauthenticationRequired")
  ELSE Await

GvatPrefixNoReauth(a, t) ==
  IF a.access_token = "" THEN Throw("NotAuthenticated")
  ELSE IF a.type = "pat" THEN Return(a.access_token)
  ELSE IF ~isTokenExpired(a.expires_at, t) THEN Return(a.access_token)
  ELSE Await

GvatPrefix(a, t) ==
  IF a.access_token = "" THEN Throw("NotAuthenticated")
  ELSE IF a.type = "pat" THEN Return(a.access_token)
  ELSE IF ~isTokenExpired(a.expires_at, t) THEN Return(a.access_token)
  ELSE IF a.refresh_token = "" THEN Throw("ReauthenticationRequired")
  ELSE Await

\* The continuation of getValidAccessToken after a successful refresh: the
\* four assignments run without an await between them.
ApplyRefreshTokenOnly(a, data, t) ==
  [a EXCEPT !.access_token = data.access_token,
            !.expires_at = t + (data.expires_in * 1000)]

ApplyRefreshSeconds(a, data, t) ==
  [a EXCEPT !.access_token = data.access_token,
            !.refresh_token = data.refresh_token,
            !.expires_at = t + data.expires_in,
            !.token_type = data.token_type]

ApplyRefresh(a, data, t) ==
  [a EXCEPT !.access_token = data.access_token,
            !.refresh_token = data.refresh_token,
            !.expires_at = t + (data.expires_in * 1000),
            !.token_type = data.token_type]

\* =================================================================== state
VARIABLES
  auth,      \* the credential object shared by reference (copilotProvider.auth)
  now,       \* Date.now()
  ticks,     \* number of clock advances so far
  gpc,       \* direct caller: "off", "idle" or "refreshing"
  ncalls,    \* direct caller: calls of getValidAccessToken started
  cur,       \* direct caller: the call in progress or last completed
  prev,      \* direct caller: the call completed before cur
  mw,        \* middleware: per request, the invocation's position and locals
  api_key,   \* copilotProvider.api_key
  poll,      \* pollForAuthorization: locals, counters and result
  hdr,       \* getAuthHeader: the caller's position, inputs and effects
  setup,     \* authenticateGitHubCopilot: position, inputs and effects
  config     \* the config object passed to updateProviderAuth, and its history

vars == <<auth, now, ticks, gpc, ncalls, cur, prev, mw, api_key, poll, hdr,
          setup, config>>

Req == 1..NumReq

NoCall == [start |-> 0, end |-> 0, pre |-> CHOOSE a \in AuthConfigs : TRUE,
           net |-> 0, out |-> NoOutcome, reply |-> NoReply, data |-> NoData,
           refreshed |-> FALSE]

MwOff == [pc |-> "off", route |-> "", accessToken |-> "", refreshed |-> FALSE,
          replaced |-> FALSE, netCalls |-> 0, writeCalls |-> 0,
          writeFailed |-> FALSE, doneCalls |-> 0, status |-> 0,
          injected |-> FALSE, thrown |-> "", err |-> "", reply |-> NoReply]

PollOff == [pc |-> "off"]

HdrOff == [pc |-> "off"]

SetupOff == [pc |-> "off"]

ConfigOff == [pc |-> "off"]

TickSteps == {1, bufferTime}

\* No continuation of a middleware invocation is waiting in the job queue:
\* I/O completes only between drains of that queue.
QueueDrained ==
  \A r \in Req : mw[r].pc \notin {"replied", "resume", "rejected"}

\* Time passes between two steps of the program.
Tick ==
  /\ ticks < MaxTicks
  /\ \E d \in TickSteps : now' = now + d
  /\ ticks' = ticks + 1
  /\ UNCHANGED <<auth, gpc, ncalls, cur, prev, mw, api_key, poll, hdr, setup,
                 config>>

\* ============================================ SpecGvat: getValidAccessToken
InitGvat ==
  /\ auth \in AuthConfigs
  /\ now = Now0
  /\ ticks = 0
  /\ gpc = "idle"
  /\ ncalls = 0
  /\ cur = NoCall
  /\ prev = NoCall
  /\ mw = [r \in Req |-> MwOff]
  /\ api_key = ""
  /\ poll = PollOff
  /\ hdr = HdrOff
  /\ setup = SetupOff
  /\ config = ConfigOff

\* getValidAccessToken(authConfig) up to its first await, or to its end when
\* it returns or throws before awaiting.
GCall ==
  /\ gpc = "idle"
  /\ ncalls < MaxCalls
  /\ ncalls' = ncalls + 1
  /\ LET out == GvatPrefix(auth, now) IN
       /\ prev' = cur
       /\ cur' = [start |-> now, end |-> now, pre |-> auth,
                  net |-> IF out.kind = "await" THEN 1 ELSE 0,
                  out |-> out, reply |-> NoReply, data |-> NoData,
                  refreshed |-> FALSE]
       /\ gpc' = IF out.kind = "await" THEN "refreshing" ELSE "idle"
  /\ UNCHANGED <<auth, now, ticks, mw, api_key, poll, hdr, setup, config>>

\* The refresh exchange settles and getValidAccessToken runs to its end.
GRefreshReply ==
  /\ gpc = "refreshing"
  /\ \E reply \in RefreshReplies :
       LET res == refreshAccessToken(reply) IN
         IF res.kind = "return"
         THEN /\ auth' = ApplyRefresh(auth, reply.data, now)
              /\ cur' = [cur EXCEPT !.out = res, !.reply = reply,
                                    !.data = reply.data,
                                    !.refreshed = TRUE, !.end = now]
         ELSE /\ auth' = auth
              /\ cur' = [cur EXCEPT !.out = res, !.reply = reply,
                                    !.end = now]
  /\ gpc' = "idle"
  /\ UNCHANGED <<now, ticks, ncalls, prev, mw, api_key, poll, hdr, setup, config>>

NextGvat == GCall \/ GRefreshReply \/ Tick

SpecGvat == InitGvat /\ [][NextGvat]_vars

\* ------------------------------------------------------- claims on SpecGvat
\* The last call of the direct caller has run to its end.
CallEnded == ncalls > 0 /\ gpc = "idle"

\* The call before cur refreshed the credential and cur started at the same
\* clock reading at which that call ended.
SecondCallImmediate ==
  /\ ncalls >= 2
  /\ prev.refreshed
  /\ cur.start = prev.end

\* After a successful refresh the credential carries the response's values.
RefreshStored ==
  (CallEnded /\ cur.refreshed) =>
     /\ auth.access_token = cur.data.access_token
     /\ auth.refresh_token = cur.data.refresh_token
     /\ auth.token_type = cur.data.token_type
     /\ auth.expires_at = cur.end + (cur.data.expires_in * 1000)
     /\ cur.out = Return(cur.data.access_token)

\* C3 as stated: after a successful refresh of an expired OAuth credential the
\* credential holds the response's access_token, refresh_token, token_type and
\* expires_at = now + expires_in*1000, and, for any expires_in, a second call
\* made immediately afterwards returns the same token without a network call.
C3_RoundTripAnyExpiresIn ==
  /\ RefreshStored
  /\ SecondCallImmediate =>
       (cur.out = Return(prev.out.token) /\ cur.net = 0)

\* C3 amended: the second half holds when the response's lifetime exceeds the
\* validator's five-minute margin (expires_in * 1000 > bufferTime).
C3_RoundTrip ==
  /\ RefreshStored
  /\ (SecondCallImmediate /\ prev.data.expires_in * 1000 > bufferTime) =>
       (cur.out = Return(prev.out.token) /\ cur.net = 0 /\ auth = cur.pre)

C3_Witness ==
  /\ SecondCallImmediate
  /\ CallEnded
  /\ prev.data.expires_in * 1000 > bufferTime
  /\ prev.pre.access_token # prev.data.access_token
  /\ cur.out.kind = "return"

\* C9: getValidAccessToken on a credential without access_token fails with
\* NotAuthenticated whatever the other fields are, calls the token endpoint
\* zero times and leaves the credential as it was.
C9_NotAuthenticated ==
  (ncalls > 0 /\ cur.pre.access_token = "") =>
     /\ gpc = "idle"
     /\ cur.out = Throw("NotAuthenticated")
     /\ cur.net = 0
     /\ auth = cur.pre

C9_Witness ==
  /\ CallEnded
  /\ cur.pre.access_token = ""
  /\ cur.pre.type = "pat"
  /\ cur.pre.refresh_token # ""
  /\ cur.out.err = "NotAuthenticated"

\* C10: getValidAccessToken on an OAuth credential that has an access_token,
\* is expired per isTokenExpired and has no refresh_token fails with
\* ReauthenticationRequired, an error distinct from NotAuthenticated and from
\* the refresh and transport errors, calls the token endpoint zero times and
\* leaves the credential as it was.
C10_ReauthenticationRequired ==
  (/\ ncalls > 0
   /\ cur.pre.type # "pat"
   /\ cur.pre.access_token # ""
   /\ isTokenExpired(cur.pre.expires_at, cur.start)
   /\ cur.pre.refresh_token = "") =>
     /\ gpc = "idle"
     /\ cur.out = Throw("ReauthenticationRequired")
     /\ cur.out.err \notin {"NotAuthenticated", "NetworkError",
                            "RefreshHttpError", "RefreshServerError"}
     /\ cur.net = 0
     /\ auth = cur.pre

C10_Witness ==
  /\ CallEnded
  /\ cur.pre.type = "oauth"
  /\ cur.pre.access_token # ""
  /\ cur.pre.expires_at # 0
  /\ isTokenExpired(cur.pre.expires_at, cur.start)
  /\ cur.pre.refresh_token = ""
  /\ cur.out.err = "ReauthenticationRequired"

\* The call is made on a PAT credential that has an access_token.
PatCall == ncalls > 0 /\ cur.pre.type = "pat" /\ cur.pre.access_token # ""

\* C11: for a PAT credential with an access_token, whatever expires_at and
\* refresh_token are, getValidAccessToken returns access_token, calls the
\* token endpoint zero times and changes no field, after any sequence of
\* calls and any advance of the clock.
C11_PatNeverRefreshed ==
  /\ [](PatCall =>
          /\ gpc = "idle"
          /\ cur.out = Return(cur.pre.access_token)
          /\ cur.net = 0
          /\ ~cur.refreshed
          /\ auth = cur.pre)
  /\ [][(auth.type = "pat" /\ auth.access_token # "") => auth' = auth]_vars

C11_Witness ==
  /\ PatCall
  /\ ncalls >= 2
  /\ cur.pre.expires_at = Now0 - 1
  /\ cur.pre.refresh_token # ""
  /\ cur.start > Now0 + bufferTime
  /\ cur.out.kind = "return"

\* The call reached the expiry test: not a PAT, access_token present.
ExpiryTested == ncalls > 0 /\ cur.pre.type # "pat" /\ cur.pre.access_token # ""

\* C12: isTokenExpired(expiresAt) is true when expiresAt is absent or at most
\* now + 5 minutes (the boundary included) and false when expiresAt is later
\* than now + 5 minutes; seen through the branch getValidAccessToken takes.
C12_ExpiredWithinMargin ==
  ExpiryTested =>
    /\ (cur.pre.expires_at = 0 \/ cur.pre.expires_at <= cur.start + 5 * 60 * 1000)
         => (cur.net = 1 \/ cur.out = Throw("ReauthenticationRequired"))
    /\ (cur.pre.expires_at # 0 /\ cur.pre.expires_at > cur.start + 5 * 60 * 1000)
         => (cur.out = Return(cur.pre.access_token) /\ cur.net = 0)

C12_Witness ==
  /\ ExpiryTested
  /\ cur.pre.expires_at # 0
  /\ cur.pre.expires_at = cur.start + 5 * 60 * 1000
  /\ cur.start > Now0
  /\ cur.net = 1

\* The refresh exchange of the call failed: the fetch rejected, the status
\* was not ok, or the body carried an error field.
RefreshFailed ==
  /\ CallEnded
  /\ cur.net = 1
  /\ (cur.reply.net = "fail" \/ ~cur.reply.ok \/ cur.reply.error # "")

\* C18: when refreshAccessToken fails inside getValidAccessToken, the call
\* fails with that error, returns no token, and access_token, refresh_token,
\* expires_at and token_type keep their values from before the call.
C18_FailedRefreshLeavesCredential ==
  RefreshFailed =>
    /\ cur.out.kind = "throw"
    /\ cur.out.token = ""
    /\ cur.reply.net = "fail" => cur.out.err = "NetworkError"
    /\ (cur.reply.net = "ok" /\ ~cur.reply.ok) => cur.out.err = "RefreshHttpError"
    /\ (cur.reply.net = "ok" /\ cur.reply.ok) => cur.out.err = "RefreshServerError"
    /\ ~cur.refreshed
    /\ auth = cur.pre

C18_Witness ==
  /\ RefreshFailed
  /\ cur.reply.error # ""
  /\ cur.out.err = "RefreshServerError"
  /\ prev.refreshed
  /\ auth = cur.pre

\* ================================================ SpecMw: githubCopilotAuth
\* Which way an invocation leaves the checks at the head of the middleware:
\* the url is not a messages endpoint, the config has no Copilot provider with
\* auth, the model is not routed to Copilot, or the request is for Copilot.
Routes == {"not_messages", "no_provider", "other_model", "copilot"}

\* The answers to a refresh grant the requests are run against: each failure,
\* and token sets that are expired at once or good for eight hours.
MwReplies ==
  {rp \in RefreshReplies :
     rp.error = "" /\ rp.ok =>
        (rp.data.expires_in \in {0, 28800} /\ rp.data.refresh_token # "")}

\* The stored credentials the requests start from: every kind, with and
\* without access_token and refresh_token, expired or still fresh.
MwAuthConfigs ==
  {a \in AuthConfigs :
     a.token_type = "bearer" /\ a.expires_at \in {0, Now0 + bufferTime + 1}}

InitMw ==
  /\ auth \in MwAuthConfigs
  /\ now = Now0
  /\ ticks = 0
  /\ gpc = "off"
  /\ ncalls = 0
  /\ cur = NoCall
  /\ prev = NoCall
  /\ mw = [r \in Req |-> [MwOff EXCEPT !.pc = "init"]]
  /\ api_key = ""
  /\ poll = PollOff
  /\ hdr = HdrOff
  /\ setup = SetupOff
  /\ config = ConfigOff

\* The catch block of the middleware: log, reply 401, done is not called.
OnAuthErrorForwards(m, e) ==
  [m EXCEPT !.err = e, !.status = 401, !.doneCalls = @ + 1,
            !.pc = "finished"]

OnAuthError(m, e) ==
  [m EXCEPT !.err = e, !.status = 401, !.pc = "finished"]

\* The middleware from its entry to its first suspension: the skip paths call
\* done at once; otherwise getValidAccessToken runs up to its first await, or
\* settles its promise at once, and the middleware awaits that promise: the
\* catch block or the rest of the try block runs in a later job.
\* Requests are numbered in their order of arrival.
MwEnter(r) ==
  /\ mw[r].pc = "init"
  /\ \A q \in Req : q < r => mw[q].pc # "init"
  /\ \E route \in Routes :
       IF route # "copilot"
       THEN mw' = [mw EXCEPT ![r].route = route,
                             ![r].doneCalls = @ + 1,
                             ![r].pc = "finished"]
       ELSE LET out == GvatPrefix(auth, now) IN
              CASE out.kind = "throw" ->
                     mw' = [mw EXCEPT ![r].route = route,
                                      ![r].thrown = out.err,
                                      ![r].pc = "rejected"]
                [] out.kind = "return" ->
                     mw' = [mw EXCEPT ![r].route = route,
                                      ![r].accessToken = out.token,
                                      ![r].pc = "resume"]
                [] out.kind = "await" ->
                     mw' = [mw EXCEPT ![r].route = route,
                                      ![r].netCalls = @ + 1,
                                      ![r].pc = "refreshing"]
  /\ UNCHANGED <<auth, now, ticks, gpc, ncalls, cur, prev, api_key, poll, hdr, setup,
                 config>>

\* The refresh exchange of request r settles (the fetch rejects, or the body
\* has been read): its continuation is queued.  Several exchanges can settle
\* before the first continuation runs, but none while a middleware
\* continuation that ran is still to resume or to catch.
MwRefreshSettle(r) ==
  /\ mw[r].pc = "refreshing"
  /\ \A q \in Req : mw[q].pc \notin {"resume", "rejected"}
  /\ \E reply \in MwReplies :
       mw' = [mw EXCEPT ![r].reply = reply, ![r].pc = "replied"]
  /\ UNCHANGED <<auth, now, ticks, gpc, ncalls, cur, prev, api_key, poll, hdr, setup,
                 config>>

\* The continuation of request r after the exchange: getValidAccessToken
\* either throws, which rejects the promise the middleware awaits, or assigns
\* the four fields of the shared credential and returns the new token.
MwRefreshReply(r) ==
  /\ mw[r].pc = "replied"
  /\ LET res == refreshAccessToken(mw[r].reply) IN
       IF res.kind = "return"
       THEN /\ auth' = ApplyRefresh(auth, mw[r].reply.data, now)
            /\ mw' = [mw EXCEPT ![r].accessToken = res.token,
                                ![r].reply = NoReply,
                                ![r].refreshed = TRUE,
                                ![r].replaced =
                                   (auth.access_token # res.token),
                                ![r].pc = "resume"]
       ELSE /\ auth' = auth
            /\ mw' = [mw EXCEPT ![r].reply = NoReply,
                                ![r].thrown = res.err,
                                ![r].pc = "rejected"]
  /\ UNCHANGED <<now, ticks, gpc, ncalls, cur, prev, api_key, poll, hdr, setup,
                 config>>

\* The middleware resumes after `await getValidAccessToken(...)` with the
\* rejection: the catch block runs.
MwCatch(r) ==
  /\ mw[r].pc = "rejected"
  /\ mw' = [mw EXCEPT ![r] = OnAuthError([@ EXCEPT !.thrown = ""], @.thrown)]
  /\ UNCHANGED <<auth, now, ticks, gpc, ncalls, cur, prev, api_key, poll, hdr,
                 setup, config>>

\* The middleware resumes after `await getValidAccessToken(...)`: it injects
\* the token as api_key and compares it with the credential's access_token.
MwResume(r) ==
  /\ mw[r].pc = "resume"
  /\ api_key' = mw[r].accessToken
  /\ IF auth.access_token # mw[r].accessToken
     THEN mw' = [mw EXCEPT ![r].injected = TRUE,
                           ![r].writeCalls = @ + 1,
                           ![r].pc = "writing"]
     ELSE mw' = [mw EXCEPT ![r].injected = TRUE,
                           ![r].doneCalls = @ + 1,
                           ![r].pc = "finished"]
  /\ UNCHANGED <<auth, now, ticks, gpc, ncalls, cur, prev, poll, hdr, setup,
                 config>>

\* writeConfigFile settles; a rejection is logged and done is called anyway.
MwWriteReplyFatal(r) ==
  /\ mw[r].pc = "writing"
  /\ QueueDrained
  /\ \E ok \in BOOLEAN :
       mw' = [mw EXCEPT ![r] =
                IF ok THEN [@ EXCEPT !.doneCalls = @ + 1, !.pc = "finished"]
                ELSE [@ EXCEPT !.writeFailed = TRUE, !.status = 401,
                               !.pc = "finished"]]
  /\ UNCHANGED <<auth, now, ticks, gpc, ncalls, cur, prev, api_key, poll, hdr, setup,
                 config>>

MwWriteReply(r) ==
  /\ mw[r].pc = "writing"
  /\ QueueDrained
  /\ \E ok \in BOOLEAN :
       mw' = [mw EXCEPT ![r].writeFailed = ~ok,
                        ![r].doneCalls = @ + 1,
                        ![r].pc = "finished"]
  /\ UNCHANGED <<auth, now, ticks, gpc, ncalls, cur, prev, api_key, poll, hdr, setup,
                 config>>

\* The requests of one burst run at one clock reading: the credential they
\* share starts expired or fresh, and each refresh leaves it expired or fresh.
NextMw ==
  \/ \E r \in Req : MwEnter(r)
  \/ \E r \in Req : MwRefreshSettle(r)
  \/ \E r \in Req : MwRefreshReply(r)
  \/ \E r \in Req : MwCatch(r)
  \/ \E r \in Req : MwResume(r)
  \/ \E r \in Req : MwWriteReply(r)

SpecMw == InitMw /\ [][NextMw]_vars

\* --------------------------------------------------------- claims on SpecMw
\* C1: when the middleware handles a request for Copilot and its call of
\* getValidAccessToken replaced the credential's access_token by a new token,
\* it calls writeConfigFile before it calls done.
C1_WriteBeforeDispatch ==
  \A r \in Req :
    (mw[r].route = "copilot" /\ mw[r].replaced /\ mw[r].doneCalls > 0) =>
       mw[r].writeCalls > 0

\* C2: at most one refresh exchange for the credential is in flight at any
\* time, for every interleaving of the requests that share it.
C2_OneRefreshInFlight ==
  Cardinality({r \in Req : mw[r].pc \in {"refreshing", "replied"}}) <= 1

\* C13: when getValidAccessToken fails for a request routed to Copilot
\* (NotAuthenticated, ReauthenticationRequired or a failed refresh), the
\* middleware replies 401, does not call done, and injects no api_key and
\* writes no config for that request.
C13_AuthFailureNotForwarded ==
  \A r \in Req :
    /\ mw[r].thrown # "" =>
         /\ mw[r].pc = "rejected"
         /\ mw[r].route = "copilot"
         /\ mw[r].status = 0
         /\ mw[r].doneCalls = 0
         /\ ~mw[r].injected
         /\ mw[r].writeCalls = 0
    /\ mw[r].err # "" =>
         /\ mw[r].pc = "finished"
         /\ mw[r].route = "copilot"
         /\ mw[r].status = 401
         /\ mw[r].doneCalls = 0
         /\ ~mw[r].injected
         /\ mw[r].writeCalls = 0

C13_Witness ==
  \E r, q \in Req :
    /\ mw[r].err = "RefreshServerError"
    /\ mw[r].netCalls = 1
    /\ mw[r].status = 401
    /\ mw[q].refreshed
    /\ mw[q].doneCalls = 1

\* C14: writeConfigFile is called by a middleware invocation only when that
\* invocation's getValidAccessToken call replaced the credential's
\* access_token, in every interleaving of the requests sharing the credential.
C14_WriteOnlyIfReplaced ==
  \A r \in Req : mw[r].writeCalls > 0 => mw[r].replaced

\* C15: a failure of writeConfigFile is logged and not retried; done is still
\* called with the token injected as api_key, and no 401 reply is produced.
C15_WriteFailureNonFatal ==
  \A r \in Req :
    mw[r].writeFailed =>
      /\ mw[r].pc = "finished"
      /\ mw[r].writeCalls = 1
      /\ mw[r].doneCalls = 1
      /\ mw[r].injected
      /\ mw[r].status = 0
      /\ mw[r].err = ""

C15_Witness ==
  \E r \in Req :
    /\ mw[r].writeFailed
    /\ mw[r].doneCalls = 1
    /\ mw[r].accessToken # ""
    /\ mw[r].accessToken # auth.access_token

\* C21: the credential is updated in one piece: every step that changes the
\* shared credential sets access_token, refresh_token and token_type from the
\* token response of one request whose exchange had settled, and expires_at
\* from that response's expires_in; so in every state between steps, with
\* concurrent requests on the same credential, the three fields are all those
\* of the stored credential or all those of one response.
FromOneResponse(a, data) ==
  /\ a.access_token = data.access_token
  /\ a.refresh_token = data.refresh_token
  /\ a.token_type = data.token_type

C21_CredentialUpdateAtomic ==
  /\ [](auth.access_token \in {"", "at0"} <=> auth.refresh_token \in {"", "rt0"})
  /\ [][auth' # auth =>
          \E r \in Req :
            /\ mw[r].pc = "replied"
            /\ mw'[r].pc = "resume"
            /\ FromOneResponse(auth', mw[r].reply.data)
            /\ auth'.expires_at = now + (mw[r].reply.data.expires_in * 1000)]_vars

C21_Witness ==
  \E r, q \in Req :
    /\ r # q
    /\ mw[r].refreshed
    /\ mw[q].refreshed
    /\ mw[r].accessToken # mw[q].accessToken
    /\ auth.access_token = mw[q].accessToken
    /\ auth.refresh_token = "rt1"
    /\ mw[r].pc = "resume"

\* ============================================ SpecPoll: pollForAuthorization
\* Messages are sequences of words; String.includes(w) is membership of w.
Includes(msg, w) == \E i \in 1..Len(msg) : msg[i] = w

MsgExpired == <<"Device", "code", "expired", ".", "Please", "try", "again", ".">>
MsgDenied == <<"Authorization", "was", "denied", ".">>
MsgTimeout == <<"Authorization", "timeout", ".", "Please", "try", "again", ".">>
MsgServer(text) == <<"Authorization", "error", ":">> \o text

\* Messages of the exceptions fetch and response.json can raise.
TransportMsgs ==
  {<<"fetch", "failed">>,
   <<"Unexpected", "token", "in", "JSON">>,
   <<"certificate", "has", "expired">>,
   <<"Proxy", "Authorization", "required">>}

ErrorCodes == {"authorization_pending", "slow_down", "expired_token",
               "access_denied", "incorrect_device_code",
               "unsupported_grant_type"}
Descriptions == {<<>>, <<"bad", "verification", "code">>}

PollTokenSets ==
  {d \in TokenSets : d.expires_in = 28800 /\ d.refresh_token = "rt1"}

\* What one poll attempt can yield: an exception from fetch or json(), a body
\* with an error field, a body with an access_token, or a body with neither.
PollAnswers ==
  {[net |-> "fail", msg |-> m, error |-> "", error_description |-> <<>>,
    data |-> NoData] : m \in TransportMsgs}
  \cup {[net |-> "ok", msg |-> <<>>, error |-> c, error_description |-> d,
         data |-> NoData] : c \in ErrorCodes, d \in Descriptions}
  \cup {[net |-> "ok", msg |-> <<>>, error |-> "", error_description |-> <<>>,
         data |-> t] : t \in PollTokenSets \cup {NoData}}

NoAnswer == [net |-> "none", msg |-> <<>>, error |-> "",
             error_description |-> <<>>, data |-> NoData]

NoResult == [kind |-> "none", err |-> "", msg |-> <<>>, data |-> NoData]

Latencies == {0, SlowReply}

\* onProgress?.(message): counted per message when a callback was passed.
Notify(p, what) ==
  IF ~p.hasProgress THEN p
  ELSE CASE what = "waiting" -> [p EXCEPT !.notesWaiting = @ + 1]
         [] what = "slow" -> [p EXCEPT !.notesSlow = @ + 1]
         [] what = "error" -> [p EXCEPT !.notesError = @ + 1]

\* interval += 5 on slow_down, unchanged otherwise.
NextIntervalTen(i, code) ==
  IF code = "slow_down" THEN i + 2 * SlowDownIncrement ELSE i

NextInterval(i, code) ==
  IF code = "slow_down" THEN i + SlowDownIncrement ELSE i

\* The error thrown inside the try block for a terminal error code.
ServerError(ans) ==
  CASE ans.error = "expired_token" ->
         [err |-> "DeviceCodeExpired", msg |-> MsgExpired]
    [] ans.error = "access_denied" ->
         [err |-> "AuthorizationDenied", msg |-> MsgDenied]
    [] OTHER ->
         [err |-> "AuthServerError",
          msg |-> MsgServer(IF ans.error_description # <<>>
                            THEN ans.error_description
                            ELSE <<ans.error>>)]

\* The test of the catch block: rethrow or swallow.
RethrownExpiredOnly(msg) == Includes(msg, "expired")

Rethrown(msg) == Includes(msg, "Authorization") \/ Includes(msg, "expired")

\* catch (error): rethrow, or notify and fall to the loop test.
Catch(p, e) ==
  IF Rethrown(e.msg)
  THEN [p EXCEPT !.pc = "failed",
                 !.result = [kind |-> "throw", err |-> e.err, msg |-> e.msg,
                             data |-> NoData]]
  ELSE Notify([p EXCEPT !.pc = "top", !.nSwallowed = @ + 1], "error")

\* The authorization_pending branch.
PendingStepSilent(p) ==
  [p EXCEPT !.pc = "top", !.nPending = @ + 1]

PendingStep(p) ==
  Notify([p EXCEPT !.pc = "top", !.nPending = @ + 1], "waiting")

\* The slow_down branch.
SlowDownStep(p) ==
  Notify([p EXCEPT !.pc = "top", !.nSlow = @ + 1,
                   !.interval = NextInterval(@, "slow_down")], "slow")

HandleAnswerReturnsAnyBody(p, ans) ==
  IF ans.net = "fail"
  THEN Catch(p, [err |-> "TransportError", msg |-> ans.msg])
  ELSE IF ans.error # ""
  THEN CASE ans.error = "authorization_pending" -> PendingStep(p)
         [] ans.error = "slow_down" -> SlowDownStep(p)
         [] OTHER -> Catch(p, ServerError(ans))
  ELSE [p EXCEPT !.pc = "returned",
                 !.result = [kind |-> "return", err |-> "", msg |-> <<>>,
                             data |-> ans.data]]

\* The body of the try block and its catch, applied to one answer.
HandleAnswer(p, ans) ==
  IF ans.net = "fail"
  THEN Catch(p, [err |-> "TransportError", msg |-> ans.msg])
  ELSE IF ans.error # ""
  THEN CASE ans.error = "authorization_pending" -> PendingStep(p)
         [] ans.error = "slow_down" -> SlowDownStep(p)
         [] OTHER -> Catch(p, ServerError(ans))
  ELSE IF ans.data.access_token # ""
  THEN [p EXCEPT !.pc = "returned",
                 !.result = [kind |-> "return", err |-> "", msg |-> <<>>,
                             data |-> ans.data]]
  ELSE [p EXCEPT !.pc = "top", !.nEmpty = @ + 1]

InitPoll ==
  /\ auth = CHOOSE a \in AuthConfigs : TRUE
  /\ now = Now0
  /\ ticks = 0
  /\ gpc = "off"
  /\ ncalls = 0
  /\ cur = NoCall
  /\ prev = NoCall
  /\ mw = [r \in Req |-> MwOff]
  /\ api_key = ""
  /\ hdr = HdrOff
  /\ setup = SetupOff
  /\ config = ConfigOff
  /\ \E i \in {ShortInterval, LongInterval}, h \in BOOLEAN :
       poll = [pc |-> "top", interval |-> i, interval0 |-> i,
               startTime |-> Now0, hasProgress |-> h,
               attempts |-> 0, sleeps |-> 0, sleptMs |-> 0, lastSleep |-> 0,
               lastSentAt |-> 0,
               nPending |-> 0, nSlow |-> 0, nEmpty |-> 0, nSwallowed |-> 0,
               notesWaiting |-> 0, notesSlow |-> 0, notesError |-> 0,
               result |-> NoResult, lastAnswer |-> NoAnswer]

\* The loop test, then either the start of the sleep or the timeout error.
PollTopRetriesFailed ==
  /\ poll.pc \in {"top", "failed"}
  /\ IF now - poll.startTime < timeout
     THEN poll' = [poll EXCEPT !.pc = "asleep"]
     ELSE poll' = [poll EXCEPT !.pc = "failed",
                     !.result = [kind |-> "throw",
                                 err |-> "AuthorizationTimeout",
                                 msg |-> MsgTimeout, data |-> NoData]]
  /\ UNCHANGED <<auth, now, ticks, gpc, ncalls, cur, prev, mw, api_key, hdr, setup,
                 config>>

PollTop ==
  /\ poll.pc = "top"
  /\ IF now - poll.startTime < timeout
     THEN poll' = [poll EXCEPT !.pc = "asleep"]
     ELSE poll' = [poll EXCEPT !.pc = "failed",
                     !.result = [kind |-> "throw",
                                 err |-> "AuthorizationTimeout",
                                 msg |-> MsgTimeout, data |-> NoData]]
  /\ UNCHANGED <<auth, now, ticks, gpc, ncalls, cur, prev, mw, api_key, hdr, setup,
                 config>>

\* The timer fires after interval seconds and the poll request is sent.
PollWake ==
  /\ poll.pc = "asleep"
  /\ now' = now + poll.interval * 1000
  /\ poll' = [poll EXCEPT !.pc = "awaiting",
                          !.sleeps = @ + 1,
                          !.sleptMs = @ + poll.interval * 1000,
                          !.lastSleep = poll.interval,
                          !.attempts = @ + 1,
                          !.lastSentAt = now']
  /\ UNCHANGED <<auth, ticks, gpc, ncalls, cur, prev, mw, api_key, hdr, setup,
                 config>>

\* The poll attempt settles and the rest of the loop body runs.
PollAnswer ==
  /\ poll.pc = "awaiting"
  /\ \E ans \in PollAnswers, d \in Latencies :
       /\ now' = now + d
       /\ poll' = HandleAnswer([poll EXCEPT !.lastAnswer = ans], ans)
  /\ UNCHANGED <<auth, ticks, gpc, ncalls, cur, prev, mw, api_key, hdr, setup,
                 config>>

NextPoll == PollTop \/ PollWake \/ PollAnswer

SpecPoll == InitPoll /\ [][NextPoll]_vars

\* Every timer fires and every fetch settles: a pending step of the loop is
\* eventually taken.
FairSpecPoll == SpecPoll /\ WF_vars(NextPoll)

\* ------------------------------------------------------- claims on SpecPoll
TerminalKinds == {"DeviceCodeExpired", "AuthorizationDenied",
                  "AuthServerError", "AuthorizationTimeout"}

\* The last answer has been handled (no attempt is outstanding).
Handled == poll.attempts > 0 /\ poll.pc # "awaiting"

\* C4: an exception raised by fetch or by response.json during one poll
\* attempt is swallowed whatever its message, and polling goes on; the loop
\* fails only with a server-reported authorization error or the timeout.
C4_TransportSwallowed ==
  /\ (Handled /\ poll.lastAnswer.net = "fail") => poll.pc = "top"
  /\ poll.pc = "failed" => poll.result.err \in TerminalKinds

\* C5: once 15 minutes have elapsed since pollForAuthorization started, no
\* poll attempt is sent to the token endpoint and no token set is returned.
C5_CeilingBoundsAttempts ==
  /\ poll.attempts > 0 => poll.lastSentAt - poll.startTime < timeout
  /\ poll.pc = "returned" => now - poll.startTime < timeout

\* C6: when the server answers authorization_pending n times and then a
\* payload with an access_token, pollForAuthorization makes exactly n+1
\* attempts, each after one sleep of the interval, notifies once per pending
\* answer, and returns the payload as received.
C6_PendingThenSuccess ==
  (/\ poll.pc = "returned"
   /\ poll.nSlow = 0 /\ poll.nEmpty = 0 /\ poll.nSwallowed = 0) =>
     /\ poll.attempts = poll.nPending + 1
     /\ poll.sleeps = poll.attempts
     /\ poll.sleptMs = poll.attempts * poll.interval0 * 1000
     /\ poll.hasProgress =>
          (/\ poll.notesWaiting = poll.nPending
           /\ poll.notesSlow = 0
           /\ poll.notesError = 0)
     /\ poll.result.kind = "return"
     /\ poll.result.data = poll.lastAnswer.data
     /\ poll.result.data.access_token # ""

C6_Witness ==
  /\ poll.pc = "returned"
  /\ poll.nSlow = 0 /\ poll.nEmpty = 0 /\ poll.nSwallowed = 0
  /\ poll.nPending = 2
  /\ poll.attempts = 3
  /\ poll.hasProgress
  /\ poll.notesWaiting = 2

\* The interval is the initial one plus 5 per slow_down received, the sleep
\* before the outstanding attempt used it, and each slow_down was notified.
IntervalIsInitialPlusSlowDowns ==
  poll.pc # "off" =>
    /\ poll.interval = poll.interval0 + 5 * poll.nSlow
    /\ poll.pc = "awaiting" => poll.lastSleep = poll.interval0 + 5 * poll.nSlow
    /\ poll.hasProgress => poll.notesSlow = poll.nSlow

\* C7: the interval used for a sleep equals the initial interval plus 5
\* seconds per slow_down answer received so far; each slow_down is notified;
\* authorization_pending and swallowed exceptions leave the interval alone,
\* and it never decreases.
C7_IntervalSlowDown ==
  /\ []IntervalIsInitialPlusSlowDowns
  /\ [][poll.pc # "off" =>
          /\ poll'.interval >= poll.interval
          /\ poll'.nSlow = poll.nSlow => poll'.interval = poll.interval]_vars

C7_Witness ==
  /\ poll.pc = "awaiting"
  /\ poll.nSlow = 2
  /\ poll.nPending >= 1
  /\ poll.nSwallowed >= 1
  /\ poll.lastSleep = poll.interval0 + 10
  /\ poll.sleptMs = poll.attempts * poll.interval0 * 1000 + 5000 + 10000

\* C8: every error code other than authorization_pending and slow_down ends
\* the call at once: DeviceCodeExpired for expired_token, AuthorizationDenied
\* for access_denied, AuthServerError with error_description, else the code,
\* for any other code.
C8_TerminalErrors ==
  (/\ Handled
   /\ poll.lastAnswer.net = "ok"
   /\ poll.lastAnswer.error \notin {"", "authorization_pending", "slow_down"}) =>
     /\ poll.pc = "failed"
     /\ poll.result.kind = "throw"
     /\ poll.lastAnswer.error = "expired_token" =>
          poll.result.err = "DeviceCodeExpired"
     /\ poll.lastAnswer.error = "access_denied" =>
          poll.result.err = "AuthorizationDenied"
     /\ poll.lastAnswer.error \notin {"expired_token", "access_denied"} =>
          /\ poll.result.err = "AuthServerError"
          /\ poll.result.msg =
               MsgServer(IF poll.lastAnswer.error_description # <<>>
                         THEN poll.lastAnswer.error_description
                         ELSE <<poll.lastAnswer.error>>)

C8_Witness ==
  /\ poll.pc = "failed"
  /\ poll.lastAnswer.error = "access_denied"
  /\ poll.result.err = "AuthorizationDenied"
  /\ poll.attempts >= 2

\* pollForAuthorization has returned or thrown.
PollTerminal == poll.pc \in {"returned", "failed"}

\* C16: when every network call returns and the clock advances, every run of
\* pollForAuthorization reaches a terminal state, Succeeded or Failed(kind),
\* whatever the server answers, and nothing happens after it: no attempt, no
\* sleep, no notification, no change of the result.
C16_PollTerminates ==
  /\ <>PollTerminal
  /\ [](poll.pc = "returned" => poll.result.kind = "return")
  /\ [](poll.pc = "failed" => poll.result.kind = "throw")
  /\ [][PollTerminal => (poll' = poll /\ now' = now)]_vars

C16_Witness ==
  /\ poll.pc = "failed"
  /\ poll.result.err = "AuthorizationTimeout"
  /\ poll.nPending >= 1
  /\ poll.nSlow >= 1
  /\ poll.nSwallowed >= 1
  /\ poll.attempts = poll.nPending + poll.nSlow + poll.nSwallowed

\* The last answer had a body with neither an error field nor access_token.
EmptyAnswer(ans) ==
  ans.net = "ok" /\ ans.error = "" /\ ans.data.access_token = ""

\* C22: a poll answer with neither an error field nor an access_token does
\* not end pollForAuthorization: handling it leaves the result, the interval
\* and the notification counts as they were and goes back to the loop test,
\* from where the next sleep starts unless the 15 minutes are over; and a
\* token set is returned only for an answer whose access_token is present.
C22_EmptyAnswerNotTerminal ==
  /\ [][(poll.pc = "awaiting" /\ EmptyAnswer(poll'.lastAnswer)) =>
          /\ poll'.pc = "top"
          /\ poll'.result = NoResult
          /\ poll'.interval = poll.interval
          /\ poll'.notesWaiting = poll.notesWaiting
          /\ poll'.notesSlow = poll.notesSlow
          /\ poll'.notesError = poll.notesError
          /\ poll'.nEmpty = poll.nEmpty + 1]_vars
  /\ [][(poll.pc = "top" /\ EmptyAnswer(poll.lastAnswer)) =>
          IF now - poll.startTime < timeout
          THEN poll'.pc = "asleep" /\ poll'.interval = poll.interval
          ELSE poll'.pc = "failed"
               /\ poll'.result.err = "AuthorizationTimeout"]_vars
  /\ [](poll.pc = "returned" =>
          /\ poll.lastAnswer.data.access_token # ""
          /\ poll.result.data = poll.lastAnswer.data)

C22_Witness ==
  /\ poll.pc = "returned"
  /\ poll.nEmpty = 2
  /\ poll.attempts = 3
  /\ poll.hasProgress
  /\ poll.notesWaiting = 0 /\ poll.notesSlow = 0 /\ poll.notesError = 0
  /\ poll.interval = poll.interval0
  /\ poll.result.data.access_token # ""

\* ==================================================== SpecHeader: getAuthHeader
NoHeader == [kind |-> "none", err |-> "", header |-> <<>>]

\* `Bearer ${accessToken}`
Bearer(tok) == [kind |-> "return", err |-> "", header |-> <<"Bearer", tok>>]

InitHeader ==
  /\ auth \in MwAuthConfigs
  /\ now = Now0
  /\ ticks = 0
  /\ gpc = "off"
  /\ ncalls = 0
  /\ cur = NoCall
  /\ prev = NoCall
  /\ mw = [r \in Req |-> MwOff]
  /\ api_key = ""
  /\ poll = PollOff
  /\ \E h \in BOOLEAN :
       hdr = [pc |-> "idle", hasAuth |-> h, hasUpdate |-> FALSE, calls |-> 0,
              pre |-> auth, net |-> 0, refreshed |-> FALSE,
              settled |-> NoOutcome, updateCalls |-> 0, out |-> NoHeader]
  /\ setup = SetupOff
  /\ config = ConfigOff

\* The end of getAuthHeader after getValidAccessToken returned tok: the
\* updateConfig callback, when one was passed, then the header.
HeaderReturn(h, tok) ==
  [h EXCEPT !.pc = "idle",
            !.updateCalls = IF h.hasUpdate THEN @ + 1 ELSE @,
            !.out = Bearer(tok)]

HeaderThrow(h, e) ==
  [h EXCEPT !.pc = "idle", !.out = [kind |-> "throw", err |-> e,
                                    header |-> <<>>]]

\* getAuthHeader(providerConfig, updateConfig?) up to its first suspension:
\* without auth it throws at once; otherwise getValidAccessToken runs up to
\* its first await or settles its promise at once, and getAuthHeader awaits
\* that promise.
HdrCall ==
  /\ hdr.pc = "idle"
  /\ hdr.calls < MaxCalls
  /\ \E u \in BOOLEAN :
       LET h == [hdr EXCEPT !.hasUpdate = u, !.calls = @ + 1, !.pre = auth,
                            !.net = 0, !.refreshed = FALSE,
                            !.settled = NoOutcome,
                            !.updateCalls = 0, !.out = NoHeader]
           out == GvatPrefix(auth, now)
       IN  IF ~hdr.hasAuth
           THEN hdr' = HeaderThrow(h, "ProviderNotAuthenticated")
           ELSE IF out.kind = "await"
           THEN hdr' = [h EXCEPT !.pc = "refreshing", !.net = 1]
           ELSE hdr' = [h EXCEPT !.pc = "resume", !.settled = out]
  /\ UNCHANGED <<auth, now, ticks, gpc, ncalls, cur, prev, mw, api_key, poll, setup,
                 config>>

\* The refresh exchange settles and the continuation of getValidAccessToken
\* runs: it throws, or assigns the credential and returns the new token.
HdrRefreshReply ==
  /\ hdr.pc = "refreshing"
  /\ \E reply \in MwReplies :
       LET res == refreshAccessToken(reply) IN
         IF res.kind = "return"
         THEN /\ auth' = ApplyRefresh(auth, reply.data, now)
              /\ hdr' = [hdr EXCEPT !.refreshed = TRUE,
                                    !.settled = Return(res.token),
                                    !.pc = "resume"]
         ELSE /\ auth' = auth
              /\ hdr' = [hdr EXCEPT !.settled = Throw(res.err),
                                    !.pc = "resume"]
  /\ UNCHANGED <<now, ticks, gpc, ncalls, cur, prev, mw, api_key, poll, setup,
                 config>>

\* getAuthHeader resumes after `await getValidAccessToken(...)`, one job
\* after that promise settled, and runs to its end.
HdrResume ==
  /\ hdr.pc = "resume"
  /\ LET h == [hdr EXCEPT !.settled = NoOutcome] IN
       IF hdr.settled.kind = "return"
       THEN hdr' = HeaderReturn(h, hdr.settled.token)
       ELSE hdr' = HeaderThrow(h, hdr.settled.err)
  /\ UNCHANGED <<auth, now, ticks, gpc, ncalls, cur, prev, mw, api_key, poll,
                 setup, config>>

NextHeader == HdrCall \/ HdrRefreshReply \/ HdrResume \/ Tick

SpecHeader == InitHeader /\ [][NextHeader]_vars

\* ----------------------------------------------------- claims on SpecHeader
\* C19: getAuthHeader invokes the updateConfig callback only if its call of
\* getValidAccessToken refreshed the token; for a PAT credential or an OAuth
\* credential that is not expired the callback is not invoked.
C19_UpdateOnlyIfRefreshed ==
  hdr.pc = "idle" => (hdr.updateCalls > 0 => hdr.refreshed)

\* ======================================== SpecSetup: authenticateGitHubCopilot
Statuses == {200, 400, 401, 403, 500}

\* What the probe of verifyGitHubCopilotAccess can yield: the fetch rejects,
\* or a response with some status.
ProbeReplies ==
  {[net |-> "fail", status |-> 0]}
  \cup {[net |-> "ok", status |-> st] : st \in Statuses}

NoProbe == [net |-> "none", status |-> 0]

\* verifyGitHubCopilotAccess, after the fetch has settled.
verifyOkStatusOnly(reply) ==
  IF reply.net = "fail" THEN FALSE ELSE reply.status < 400

verifyGitHubCopilotAccess(reply) ==
  IF reply.net = "fail" THEN FALSE
  ELSE reply.status # 401 /\ reply.status # 403

NoAuthConfig == [type |-> "", access_token |-> "", refresh_token |-> "",
                 expires_at |-> 0, token_type |-> ""]

SetupStartState ==
  [pc |-> "start", path |-> "", token |-> "", data |-> NoData,
   probe |-> NoProbe, hasAccess |-> FALSE, authConfig |-> NoAuthConfig,
   readCalls |-> 0, backupCalls |-> 0, updated |-> FALSE, writeCalls |-> 0,
   errorsPrinted |-> 0, exitCode |-> 0, thrown |-> "", cause |-> ""]

\* verifyGitHubCopilotAccess logs with console.error when the fetch rejects.
verifyErrorsLogged(reply) == IF reply.net = "fail" THEN 1 ELSE 0

\* displayError(...), one console.error line, followed by process.exit(1).
SetupFail(st, cause) ==
  [st EXCEPT !.pc = "exited", !.errorsPrinted = @ + 1, !.exitCode = 1,
             !.cause = cause]

\* An error inside the try block.  On the PAT path it is thrown inside
\* authenticateWithPAT and rejects the promise authenticateGitHubCopilot
\* awaits, whose catch block runs in a later job; with a client id the error
\* is displayed and the process exits in the job that meets it.
SetupThrow(st, cause) ==
  IF st.path = "pat"
  THEN [st EXCEPT !.pc = "rejected", !.thrown = cause]
  ELSE SetupFail(st, cause)

\* The locals of pollForAuthorization at its entry.
PollStart(i, h, t) ==
  [pc |-> "top", interval |-> i, interval0 |-> i,
   startTime |-> t, hasProgress |-> h,
   attempts |-> 0, sleeps |-> 0, sleptMs |-> 0, lastSleep |-> 0,
   lastSentAt |-> 0,
   nPending |-> 0, nSlow |-> 0, nEmpty |-> 0, nSwallowed |-> 0,
   notesWaiting |-> 0, notesSlow |-> 0, notesError |-> 0,
   result |-> NoResult, lastAnswer |-> NoAnswer]

InitSetup ==
  /\ auth = CHOOSE a \in AuthConfigs : TRUE
  /\ now = Now0
  /\ ticks = 0
  /\ gpc = "off"
  /\ ncalls = 0
  /\ cur = NoCall
  /\ prev = NoCall
  /\ mw = [r \in Req |-> MwOff]
  /\ api_key = ""
  /\ poll = PollOff
  /\ hdr = HdrOff
  /\ setup = SetupStartState
  /\ config = ConfigOff

\* authenticateGitHubCopilot up to its first await: without a client id the
\* PAT setup runs, up to the prompt or the probe; with one, the device code
\* is requested.
SetupStart ==
  /\ setup.pc = "start"
  /\ \E clientId \in BOOLEAN, nonInteractive \in BOOLEAN,
        envToken \in {"", "pat1"} :
       IF clientId
       THEN setup' = [setup EXCEPT !.path = "oauth", !.pc = "requesting"]
       ELSE IF ~nonInteractive
       THEN setup' = [setup EXCEPT !.path = "pat", !.pc = "prompting"]
       ELSE IF envToken = ""
       THEN setup' = SetupThrow([setup EXCEPT !.path = "pat"], "pat_token")
       ELSE setup' = [setup EXCEPT !.path = "pat", !.token = envToken,
                                   !.pc = "verifying"]
  /\ UNCHANGED <<auth, now, ticks, gpc, ncalls, cur, prev, mw, api_key, poll, hdr,
                 config>>

\* promptForInput resolves with the trimmed answer.
SetupPrompt ==
  /\ setup.pc = "prompting"
  /\ \E answer \in {"", "pat1"} :
       IF answer = ""
       THEN setup' = SetupThrow(setup, "pat_token")
       ELSE setup' = [setup EXCEPT !.token = answer, !.pc = "verifying"]
  /\ UNCHANGED <<auth, now, ticks, gpc, ncalls, cur, prev, mw, api_key, poll, hdr,
                 config>>

\* requestDeviceCode settles: it throws on a rejected fetch and on a status
\* that is not ok; otherwise the code is displayed and polling starts with
\* the interval of the response and displayProgress as onProgress.
SetupDeviceCode ==
  /\ setup.pc = "requesting"
  /\ \E ok \in BOOLEAN, i \in {ShortInterval, LongInterval} :
       IF ~ok
       THEN /\ setup' = SetupFail(setup, "device_code")
            /\ poll' = poll
       ELSE /\ setup' = [setup EXCEPT !.pc = "polling"]
            /\ poll' = PollStart(i, TRUE, now)
  /\ UNCHANGED <<auth, now, ticks, gpc, ncalls, cur, prev, mw, api_key, hdr,
                 config>>

\* pollForAuthorization has settled: its error goes to the catch block, its
\* token set to the probe.
SetupPolled ==
  /\ setup.pc = "polling"
  /\ poll.pc \in {"returned", "failed"}
  /\ IF poll.pc = "failed"
     THEN setup' = SetupFail(setup, "poll")
     ELSE setup' = [setup EXCEPT !.data = poll.result.data,
                                 !.token = poll.result.data.access_token,
                                 !.pc = "verifying"]
  /\ UNCHANGED <<auth, now, ticks, gpc, ncalls, cur, prev, mw, api_key, poll, hdr,
                 config>>

\* After the probe: without access the error is displayed and the process
\* exits; with access authConfig is built and readConfigFile is called.
AfterProbeIgnoresAccess(st, access, t) ==
  [st EXCEPT !.hasAccess = access,
             !.authConfig =
                IF st.path = "pat"
                THEN [NoAuthConfig EXCEPT !.type = "pat",
                                          !.access_token = st.token]
                ELSE [type |-> "oauth",
                      access_token |-> st.data.access_token,
                      refresh_token |-> st.data.refresh_token,
                      expires_at |-> t + (st.data.expires_in * 1000),
                      token_type |-> st.data.token_type],
             !.readCalls = @ + 1,
             !.pc = "reading"]

AfterProbe(st, access, t) ==
  IF ~access
  THEN SetupThrow([st EXCEPT !.hasAccess = FALSE], "no_access")
  ELSE [st EXCEPT !.hasAccess = TRUE,
                  !.authConfig =
                     IF st.path = "pat"
                     THEN [NoAuthConfig EXCEPT !.type = "pat",
                                               !.access_token = st.token]
                     ELSE [type |-> "oauth",
                           access_token |-> st.data.access_token,
                           refresh_token |-> st.data.refresh_token,
                           expires_at |-> t + (st.data.expires_in * 1000),
                           token_type |-> st.data.token_type],
                  !.readCalls = @ + 1,
                  !.pc = "reading"]

\* The probe's fetch settles and verifyGitHubCopilotAccess runs to its end.
SetupProbe ==
  /\ setup.pc = "verifying"
  /\ \E reply \in ProbeReplies :
       setup' = [setup EXCEPT !.probe = reply,
                              !.errorsPrinted = @ + verifyErrorsLogged(reply),
                              !.pc = "verified"]
  /\ UNCHANGED <<auth, now, ticks, gpc, ncalls, cur, prev, mw, api_key, poll, hdr,
                 config>>

\* The setup resumes after `await verifyGitHubCopilotAccess(...)`.
SetupVerified ==
  /\ setup.pc = "verified"
  /\ setup' = AfterProbe(setup, verifyGitHubCopilotAccess(setup.probe), now)
  /\ UNCHANGED <<auth, now, ticks, gpc, ncalls, cur, prev, mw, api_key, poll, hdr,
                 config>>

\* readConfigFile settles; then backupConfigFile is called.
SetupRead ==
  /\ setup.pc = "reading"
  /\ \E ok \in BOOLEAN :
       IF ~ok
       THEN setup' = SetupThrow(setup, "read")
       ELSE setup' = [setup EXCEPT !.backupCalls = @ + 1, !.pc = "backing"]
  /\ UNCHANGED <<auth, now, ticks, gpc, ncalls, cur, prev, mw, api_key, poll, hdr,
                 config>>

\* backupConfigFile settles; then updateProviderAuth and
\* setDefaultModelFromEnv run, and the setup awaits the latter.
SetupBackup ==
  /\ setup.pc = "backing"
  /\ \E ok \in BOOLEAN :
       IF ~ok
       THEN setup' = SetupThrow(setup, "backup")
       ELSE setup' = [setup EXCEPT !.updated = TRUE, !.pc = "updated"]
  /\ UNCHANGED <<auth, now, ticks, gpc, ncalls, cur, prev, mw, api_key, poll, hdr,
                 config>>

\* The setup resumes after `await setDefaultModelFromEnv(config)` and calls
\* writeConfigFile.
SetupCallWrite ==
  /\ setup.pc = "updated"
  /\ setup' = [setup EXCEPT !.writeCalls = @ + 1, !.pc = "writing"]
  /\ UNCHANGED <<auth, now, ticks, gpc, ncalls, cur, prev, mw, api_key, poll, hdr,
                 config>>

\* authenticateGitHubCopilot resumes after `await authenticateWithPAT()` with
\* the rejection: the catch block runs.
SetupCatch ==
  /\ setup.pc = "rejected"
  /\ setup' = SetupFail([setup EXCEPT !.thrown = ""], setup.thrown)
  /\ UNCHANGED <<auth, now, ticks, gpc, ncalls, cur, prev, mw, api_key, poll, hdr,
                 config>>

\* writeConfigFile settles; success is displayed, or the error.
SetupWrite ==
  /\ setup.pc = "writing"
  /\ \E ok \in BOOLEAN :
       IF ~ok
       THEN setup' = SetupThrow(setup, "write")
       ELSE setup' = [setup EXCEPT !.pc = "done"]
  /\ UNCHANGED <<auth, now, ticks, gpc, ncalls, cur, prev, mw, api_key, poll, hdr,
                 config>>

NextSetup ==
  \/ SetupStart
  \/ SetupPrompt
  \/ SetupDeviceCode
  \/ PollTop
  \/ PollWake
  \/ PollAnswer
  \/ SetupPolled
  \/ SetupProbe
  \/ SetupVerified
  \/ SetupRead
  \/ SetupBackup
  \/ SetupCallWrite
  \/ SetupWrite
  \/ SetupCatch

SpecSetup == InitSetup /\ [][NextSetup]_vars

\* ------------------------------------------------------ claims on SpecSetup
\* C17: verifyGitHubCopilotAccess judges by the status of the probe's
\* response: no access for 401 and 403, access for every other status,
\* 400 and 5xx included.
C17_ProbeByStatus ==
  (setup.probe.net = "ok" /\ setup.pc # "verified") =>
    /\ setup.probe.status \in {401, 403} =>
         /\ ~setup.hasAccess
         /\ setup.thrown = "no_access" \/ setup.cause = "no_access"
         /\ setup.readCalls = 0
    /\ setup.probe.status \notin {401, 403} =>
         /\ setup.hasAccess
         /\ setup.thrown # "no_access" /\ setup.cause # "no_access"
         /\ setup.readCalls = 1

C17_Witness ==
  /\ setup.probe.net = "ok"
  /\ setup.probe.status = 500
  /\ setup.hasAccess
  /\ setup.pc = "reading"

\* C20 as stated: every write of the configuration by
\* authenticateGitHubCopilot comes after a device flow that succeeded, a probe
\* that reported access, and the backup; on a device-code request error, a
\* terminal poll failure or timeout, or a probe reporting no access the error
\* is printed, the exit status is 1, and neither updateProviderAuth nor
\* writeConfigFile is performed.
C20_WriteOnlyAfterDeviceFlow ==
  /\ (setup.updated \/ setup.writeCalls > 0) =>
       /\ poll.pc = "returned"
       /\ setup.hasAccess
       /\ setup.backupCalls = 1
  /\ setup.cause \in {"device_code", "poll", "no_access"} =>
       /\ setup.pc = "exited"
       /\ setup.errorsPrinted >= 1
       /\ setup.exitCode = 1
       /\ ~setup.updated
       /\ setup.writeCalls = 0

\* C20: authenticateGitHubCopilot writes the configuration only after a token
\* was obtained (with a client id: the device flow succeeded; without one:
\* the PAT setup got a token from the environment or the prompt), the probe
\* reported access for it, the backup was made and updateProviderAuth was
\* performed; on every failure before the update (device-code request error,
\* terminal poll failure or timeout, missing PAT, probe reporting no access,
\* failed read or backup) the error is displayed once, after the probe's own
\* log line when its fetch was rejected, the exit status is 1, and neither
\* updateProviderAuth nor writeConfigFile is performed, also not in the job
\* between the throw and the catch on the PAT path; a failed write exits the
\* same way after both.
C20_WriteOnlyAfterSuccess ==
  /\ (setup.updated \/ setup.writeCalls > 0) =>
       /\ setup.path = "oauth" => poll.pc = "returned"
       /\ setup.path = "pat" => poll.pc = "off"
       /\ setup.token # ""
       /\ setup.authConfig.access_token = setup.token
       /\ setup.probe.net = "ok"
       /\ setup.probe.status \notin {401, 403}
       /\ setup.hasAccess
       /\ setup.backupCalls = 1
       /\ setup.updated
       /\ setup.writeCalls <= 1
       /\ setup.writeCalls = 0 <=> setup.pc = "updated"
  /\ setup.thrown # "" =>
       /\ setup.path = "pat"
       /\ setup.pc = "rejected"
       /\ setup.exitCode = 0
       /\ setup.cause = ""
  /\ (\/ (poll.pc = "failed" /\ setup.pc # "polling")
      \/ setup.thrown \in {"no_access", "pat_token", "read", "backup"}
      \/ setup.cause \in {"device_code", "poll", "no_access", "pat_token",
                          "read", "backup"}) =>
       /\ ~setup.updated
       /\ setup.writeCalls = 0
  /\ setup.cause # "" =>
       /\ setup.pc = "exited"
       /\ setup.errorsPrinted = 1 + verifyErrorsLogged(setup.probe)
       /\ setup.exitCode = 1
  /\ (setup.thrown = "write" \/ setup.cause = "write") =>
       (setup.updated /\ setup.writeCalls = 1)
  /\ setup.pc = "exited" <=> setup.cause # ""
  /\ setup.pc = "done" => (setup.exitCode = 0 /\ setup.errorsPrinted = 0)

C20_Witness ==
  /\ setup.pc = "done"
  /\ setup.path = "oauth"
  /\ poll.nPending >= 1
  /\ setup.probe.status = 400
  /\ setup.backupCalls = 1
  /\ setup.writeCalls = 1
  /\ setup.exitCode = 0

\* ================================================ SpecConfig: updateProviderAuth
\* A url string, by the parts the URL parser separates; a string without a
\* scheme does not parse, and the empty string is a missing api_base_url.
Url(scheme, host, path) == [scheme |-> scheme, host |-> host, path |-> path]

NoUrl == Url("", "", "")

\* `${GITHUB_COPILOT_API_BASE}${GITHUB_COPILOT_COMPLETIONS_ENDPOINT}`
CopilotUrl == Url("https", "api.githubcopilot.com", "/chat/completions")

Urls ==
  {NoUrl,
   CopilotUrl,
   Url("", "api.githubcopilot.com", ""),
   Url("https", "API.GitHubCopilot.com", ""),
   Url("https", "api.githubcopilot.com.evil.io", ""),
   Url("https", "api.openai.com", "/v1")}

\* The URL parser lowercases the host.
ToLowerCase(host) ==
  IF host = "API.GitHubCopilot.com" THEN "api.githubcopilot.com" ELSE host

\* new URL(u): throws without a scheme, else gives the hostname.
ParseUrl(u) ==
  IF u.scheme = ""
  THEN [ok |-> FALSE, hostname |-> ""]
  ELSE [ok |-> TRUE, hostname |-> ToLowerCase(u.host)]

GITHUB_COPILOT_MODELS ==
  <<"claude-sonnet-4", "claude-haiku-4", "gpt-5", "gpt-4o", "gpt-4o-mini",
    "o1", "o1-mini", "gemini-2.5-pro", "gemini-2.5-flash">>

\* The credentials handed to updateProviderAuth.
ConfigAuths ==
  {a \in AuthConfigs :
     /\ a.type \in {"oauth", "pat"}
     /\ a.access_token = "at0"
     /\ a.refresh_token = "rt0"
     /\ a.expires_at = 0
     /\ a.token_type = "bearer"}

\* The providers a config can hold before setup; NoAuthConfig is a provider
\* without auth.
Providers ==
  [name : {"github-copilot", "openai"},
   api_base_url : Urls,
   auth : {NoAuthConfig} \cup {a \in ConfigAuths : a.type = "pat"},
   models : {<<"gpt-4o">>},
   transformer : {<<>>}]

createGitHubCopilotProvider(authConfig) ==
  [name |-> "github-copilot",
   api_base_url |-> CopilotUrl,
   auth |-> authConfig,
   models |-> GITHUB_COPILOT_MODELS,
   transformer |-> <<"anthropic">>]

isGitHubCopilotProvider(provider) ==
  IF provider.name = "github-copilot" THEN TRUE
  ELSE IF provider.api_base_url # NoUrl
  THEN LET url == ParseUrl(provider.api_base_url) IN
         IF url.ok THEN url.hostname = "api.githubcopilot.com" ELSE FALSE
  ELSE FALSE

\* Array.prototype.find(isGitHubCopilotProvider), as the index of the first
\* match, 0 for undefined.
FindCopilot(ps) ==
  IF \E i \in 1..Len(ps) : isGitHubCopilotProvider(ps[i])
  THEN CHOOSE i \in 1..Len(ps) :
         /\ isGitHubCopilotProvider(ps[i])
         /\ \A j \in 1..(i - 1) : ~isGitHubCopilotProvider(ps[j])
  ELSE 0

\* updateProviderAuth on a config whose Providers is hasProviders ? ps : undefined.
updateProviderAuthAppends(hasProviders, ps, authConfig) ==
  [hasProviders |-> TRUE,
   Providers |-> Append(ps, createGitHubCopilotProvider(authConfig))]

updateProviderAuth(hasProviders, ps, authConfig) ==
  LET i == IF hasProviders THEN FindCopilot(ps) ELSE 0 IN
    IF i # 0
    THEN [hasProviders |-> TRUE,
          Providers |-> [ps EXCEPT ![i].auth = authConfig]]
    ELSE [hasProviders |-> TRUE,
          Providers |-> Append(IF hasProviders THEN ps ELSE <<>>,
                               createGitHubCopilotProvider(authConfig))]

RECURSIVE SeqsUpTo(_, _)
SeqsUpTo(S, n) ==
  IF n = 0 THEN {<<>>}
  ELSE LET shorter == SeqsUpTo(S, n - 1) IN
         shorter \cup {Append(q, x) : q \in {t \in shorter : Len(t) = n - 1},
                                      x \in S}

InitConfig ==
  /\ auth = CHOOSE a \in AuthConfigs : TRUE
  /\ now = Now0
  /\ ticks = 0
  /\ gpc = "off"
  /\ ncalls = 0
  /\ cur = NoCall
  /\ prev = NoCall
  /\ mw = [r \in Req |-> MwOff]
  /\ api_key = ""
  /\ poll = PollOff
  /\ hdr = HdrOff
  /\ setup = SetupOff
  /\ \E h \in BOOLEAN, ps \in SeqsUpTo(Providers, MaxProviders) :
       /\ ~h => ps = <<>>
       /\ config = [pc |-> "idle", hasProviders |-> h, Providers |-> ps,
                    hadProviders |-> h, initial |-> ps,
                    calls |-> 0, pushes |-> 0,
                    last |-> NoAuthConfig]

\* One call updateProviderAuth(config, authConfig).
UpdateProviderAuth ==
  /\ config.pc = "idle"
  /\ config.calls < MaxCalls
  /\ \E authConfig \in ConfigAuths :
       LET after == updateProviderAuth(config.hasProviders, config.Providers,
                                       authConfig) IN
         config' = [config EXCEPT
                      !.hasProviders = after.hasProviders,
                      !.Providers = after.Providers,
                      !.calls = @ + 1,
                      !.pushes = @ + (Len(after.Providers)
                                        - Len(config.Providers)),
                      !.last = authConfig]
  /\ UNCHANGED <<auth, now, ticks, gpc, ncalls, cur, prev, mw, api_key, poll,
                 hdr, setup>>

NextConfig == UpdateProviderAuth

SpecConfig == InitConfig /\ [][NextConfig]_vars

\* ----------------------------------------------------- claims on SpecConfig
\* C23: updateProviderAuth is idempotent on the provider list: after one or
\* more calls the first provider matching isGitHubCopilotProvider has the
\* auth supplied last; a call appends one provider when none matched and
\* none otherwise, so after the first call no call appends; and every
\* provider of the original list other than that first match is unchanged,
\* the first match changing in auth only.
C23_UpdateProviderAuthIdempotent ==
  /\ [](config.calls > 0 =>
          LET i == FindCopilot(config.Providers) IN
            /\ i # 0
            /\ config.Providers[i].auth = config.last
            /\ FindCopilot(config.initial) # 0 => i = FindCopilot(config.initial)
            /\ FindCopilot(config.initial) = 0 =>
                 /\ i = Len(config.initial) + 1
                 /\ config.Providers[i] = createGitHubCopilotProvider(config.last))
  /\ [](/\ config.pushes =
             IF config.calls > 0 /\ FindCopilot(config.initial) = 0
             THEN 1 ELSE 0
        /\ Len(config.Providers) = Len(config.initial) + config.pushes)
  /\ [](\A i \in 1..Len(config.initial) :
          IF config.calls > 0 /\ i = FindCopilot(config.initial)
          THEN config.Providers[i] =
                 [config.initial[i] EXCEPT !.auth = config.last]
          ELSE config.Providers[i] = config.initial[i])
  /\ [][config'.calls = config.calls + 1 =>
          Len(config'.Providers) - Len(config.Providers) =
            IF FindCopilot(config.Providers) = 0 THEN 1 ELSE 0]_vars

C23_Witness ==
  /\ config.calls = 2
  /\ config.pushes = 0
  /\ Len(config.initial) = 2
  /\ config.initial[1].api_base_url.host = "api.githubcopilot.com.evil.io"
  /\ config.initial[2].name = "openai"
  /\ config.initial[2].api_base_url.host = "API.GitHubCopilot.com"
  /\ config.initial[2].auth.type = "pat"
  /\ config.last.type = "oauth"
  /\ config.Providers[2].auth = config.last
  /\ config.Providers[1] = config.initial[1]

====
